---------------------------- MODULE Spec2Model ----------------------------
(***************************************************************************)
(* Model of modules/Isolation.cc (Delphes): IsolationClassifier and        *)
(* Isolation::Process.                                                     *)
(*                                                                         *)
(* Units.  Transverse momenta are integers.  Pseudorapidity and azimuth    *)
(* are integers on a grid on which the barrel edge 1.488 is BarrelEdge     *)
(* grid steps and 2*pi is PhiPeriod grid steps.  The pile-up density rho   *)
(* is measured in (pt unit)/(pi * grid step^2), so that the product        *)
(* rho * DeltaRMax^2 * pi of the source is the integer                     *)
(* rho * DeltaRMax * DeltaRMax.  Derived quantities (corrected sums,       *)
(* ratios) are exact rationals [num, den]; den = 0 stands for the IEEE     *)
(* results of a division by zero: num > 0 is +inf, num = 0 is NaN.         *)
(* Floating-point rounding is not modelled.                                *)
(***************************************************************************)
EXTENDS Integers, Sequences, FiniteSets, TLC

\* ------------------------------------------------------------- bounds

\* Largest number of entries of the candidate input array.
MaxCandidates == 3

\* Largest number of entries of the isolation input array.
MaxIsolation == 4

\* ------------------------------------------------- program constants

\* |eta| < 1.488 selects the central parametrisation (grid steps).
BarrelEdge == 2

\* 2*pi in grid steps (TVector2::Phi_mpi_pi wraps by this period).
PhiPeriod == 8

\* ---------------------------------------------------------- rationals

Abs(x) == IF x < 0 THEN -x ELSE x

Max(a, b) == IF a >= b THEN a ELSE b

RECURSIVE Gcd(_, _)
Gcd(a, b) == IF b = 0 THEN a ELSE Gcd(b, a % b)

\* The double n/d, n >= 0, d >= 0, in lowest terms; 1/0 is +inf, 0/0 is NaN.
Rat(n, d) ==
  IF d = 0 THEN [num |-> IF n > 0 THEN 1 ELSE 0, den |-> 0]
  ELSE LET g == Gcd(n, d) IN [num |-> n \div g, den |-> d \div g]

Int2Rat(n) == [num |-> n, den |-> 1]

\* a > b of two doubles, b finite: false when a is NaN, true when a is +inf.
Gt(a, b) ==
  IF a.den = 0 THEN a.num > 0
  ELSE a.num * b.den > b.num * a.den

\* a / pt for a finite a >= 0 and an integer pt >= 0.
DivPt(a, pt) == Rat(a.num, a.den * pt)

\* ------------------------------------------------------------- inputs

\* A pointer to an array: the null pointer, or an array with its entries.
NullArray == [null |-> TRUE, items |-> <<>>]

Array(entries) == [null |-> FALSE, items |-> entries]

\* The value of a candidate's output fields that this module has not written
\* (and of the first instance's record while there is none).
Unset == [written |-> FALSE]

Cand(id, pt, eta, phi) == [id |-> id, pt |-> pt, eta |-> eta, phi |-> phi]

Iso(id, pt, eta, phi, charge, pu) ==
  [id |-> id, pt |-> pt, eta |-> eta, phi |-> phi,
   Charge |-> charge, IsRecoPU |-> pu]

Bin(lo, hi, rho) == [lo |-> lo, hi |-> hi, rho |-> rho]

\* The candidates an event may hold, in array order.
CandidateMaster ==
  << Cand(1, 2, 0, 0), Cand(2, 4, -2, 0), Cand(3, 0, 0, 4), Cand(4, 1, 3, -3) >>

\* The isolation objects an event may hold, in array order.
IsolationMaster ==
  << Iso(1, 3, 0, 0, 1, FALSE), Iso(5, 6, -1, 0, 0, FALSE),
     Iso(6, 2, -2, 0, -1, TRUE), Iso(7, 1, 0, -3, 0, FALSE),
     Iso(2, 1, -2, 1, 1, TRUE) >>

\* The sub-sequences of the first n entries of master (any subset, in order).
RECURSIVE SubSeqs(_, _)
SubSeqs(master, n) ==
  IF n = 0 THEN { <<>> }
  ELSE LET shorter == SubSeqs(master, n - 1)
       IN shorter \cup { Append(s, master[n]) : s \in shorter }

\* The density tables: none configured, an empty one, overlapping bins.
RhoInputs ==
  { NullArray, Array(<<>>),
    Array(<< Bin(0, 1, 2), Bin(0, 2, 1), Bin(3, 5, 4) >>) }

IsoParamsA == [Iso_p0 |-> 2, Iso_p1 |-> 0, Iso_p0_ee |-> 1, Iso_p1_ee |-> 1]
IsoParamsB == [Iso_p0 |-> 0, Iso_p1 |-> 3, Iso_p0_ee |-> 9, Iso_p1_ee |-> 0]

IsoParamValues == { IsoParamsA, IsoParamsB }
PTRatioMaxValues == { Rat(1, 2), Rat(2, 1) }
PTSumMaxValues == { 2, 5 }
PTMinValues == { 1, 2 }
DeltaRMaxValues == { 2 }

\* Every configuration Isolation::Init may read.
Configs ==
  [ fDeltaRMax : DeltaRMaxValues, IsoParams : IsoParamValues,
    fPTRatioMax : PTRatioMaxValues, fPTSumMax : PTSumMaxValues,
    fUsePTSum : BOOLEAN, fUseLooseID : BOOLEAN, fUseRhoCorrection : BOOLEAN,
    fPTMin : PTMinValues ]

\* The configurations of the first module instance.
FirstConfigs ==
  { c \in Configs : c.IsoParams = IsoParamsA /\ c.fPTRatioMax = Rat(2, 1)
                    /\ c.fPTSumMax = 5 }

\* The configurations a second module instance of the same card may have:
\* those of c with the pre-filter threshold changed, or with cut values changed.
Variants(c) ==
  { d \in Configs :
      /\ d # c
      /\ d.fDeltaRMax = c.fDeltaRMax
      /\ d.fUsePTSum = c.fUsePTSum
      /\ d.fUseLooseID = c.fUseLooseID
      /\ d.fUseRhoCorrection = c.fUseRhoCorrection
      /\ \/ /\ d.fPTMin # c.fPTMin
            /\ d.IsoParams = c.IsoParams
            /\ d.fPTRatioMax = c.fPTRatioMax
            /\ d.fPTSumMax = c.fPTSumMax
         \/ /\ d.fPTMin = c.fPTMin
            /\ d.fPTRatioMax = c.fPTRatioMax \/ d.fPTSumMax = c.fPTSumMax }

\* ---------------------------------------------------------------- state

VARIABLES
  cfg,                   \* the running module's configuration
  fCandidateInputArray,  \* the event's candidates
  fIsolationInputArray,  \* the event's isolation objects
  fRhoInputArray,        \* the density table, or NullArray
  fields,                \* each candidate's six output fields, or Unset
  fOutputArray,          \* the running module's output: candidate positions
  isolationArray,        \* the pre-filter's result, or NullArray
  pc,                    \* position in Process
  ci,                    \* position of fItCandidateInputArray
  ii,                    \* position of itIsolationArray
  eta, rho,
  sumNeutral, sumChargedNoPU, sumChargedPU, sumAllParticles, counter,
  sumDBeta, sumRhoCorr,
  pass,                  \* 1: the first module instance, 2: the second
  prev                   \* what the first instance left, once the second runs

vars ==
  << cfg, fCandidateInputArray, fIsolationInputArray, fRhoInputArray, fields,
     fOutputArray, isolationArray, pc, ci, ii, eta, rho, sumNeutral,
     sumChargedNoPU, sumChargedPU, sumAllParticles, counter, sumDBeta,
     sumRhoCorr, pass, prev >>

inputs == << fCandidateInputArray, fIsolationInputArray, fRhoInputArray >>

sums == << sumNeutral, sumChargedNoPU, sumChargedPU, sumAllParticles, counter >>

\* ------------------------------------------------------------ helpers

\* GetCategory with the comparison turned round.
GetCategory_Inverted(object, fPTMin) == IF object.pt > fPTMin THEN -1 ELSE 0

\* IsolationClassifier::GetCategory
GetCategory(object, fPTMin) == IF object.pt < fPTMin THEN -1 ELSE 0

\* ExRootFilter::GetSubArray(fClassifier, 0): the objects of category 0, in
\* array order; no array when there is none.
GetSubArray(array, fPTMin) ==
  LET sub == SelectSeq(array, LAMBDA o : GetCategory(o, fPTMin) = 0)
  IN IF sub = <<>> THEN NullArray ELSE Array(sub)

\* TVector2::Phi_mpi_pi: x brought into [-pi, pi).
Phi_mpi_pi(x) ==
  LET half == PhiPeriod \div 2
  IN ((x + half) % PhiPeriod) - half

\* The square of TLorentzVector::DeltaR.
DeltaR2(a, b) ==
  LET deta == a.eta - b.eta
      dphi == Phi_mpi_pi(a.phi - b.phi)
  IN deta * deta + dphi * dphi

\* candidateMomentum.DeltaR(isolationMomentum) <= fDeltaRMax
InCone(candidate, isolation, fDeltaRMax) ==
  DeltaR2(candidate, isolation) <= fDeltaRMax * fDeltaRMax

\* The inclusion test without the comparison of unique ids.
Included_NoSelfCheck(candidate, isolation, fDeltaRMax) ==
  InCone(candidate, isolation, fDeltaRMax)

\* The test of line 220-221: inside the cone and not the candidate itself.
Included(candidate, isolation, fDeltaRMax) ==
  /\ InCone(candidate, isolation, fDeltaRMax)
  /\ candidate.id # isolation.id

\* The "find rho" loop: the scan keeps the last matching bin's value.
RECURSIVE ScanRho(_, _, _, _)
ScanRho(table, k, e, r) ==
  IF k > Len(table) THEN r
  ELSE ScanRho(table, k + 1, e,
               IF e >= table[k].lo /\ e < table[k].hi THEN table[k].rho ELSE r)

\* A scan that stops at the first matching bin.
RECURSIVE ScanFirst(_, _, _)
ScanFirst(table, k, e) ==
  IF k > Len(table) THEN 0
  ELSE IF e >= table[k].lo /\ e < table[k].hi THEN table[k].rho
  ELSE ScanFirst(table, k + 1, e)

FindRho_FirstMatch(table, e) ==
  IF table.null THEN 0 ELSE ScanFirst(table.items, 1, e)

FindRho(table, e) ==
  IF table.null THEN 0 ELSE ScanRho(table.items, 1, e, 0)

\* IsoCut of a candidate.
IsoCut(candidate, p) ==
  IF Abs(candidate.eta) < BarrelEdge
  THEN p.Iso_p0 + p.Iso_p1 * candidate.pt
  ELSE p.Iso_p0_ee + p.Iso_p1_ee * candidate.pt

\* sumChargedNoPU + Max(sumNeutral - 0.5*sumChargedPU, 0)
SumDBeta(noPU, neutral, pu) ==
  LET twice == Max(2 * neutral - pu, 0) IN Rat(2 * noPU + twice, 2)

\* sumChargedNoPU + Max(sumNeutral - Max(rho, 0)*fDeltaRMax*fDeltaRMax*Pi, 0)
SumRhoCorr(noPU, neutral, r, fDeltaRMax) ==
  Int2Rat(noPU + Max(neutral - Max(r, 0) * fDeltaRMax * fDeltaRMax, 0))

\* The selection with the ratio clause left to the default mode alone.
Rejected_FirstRuleDecides(c, sum, ratio, isoCut) ==
  IF c.fUsePTSum /\ ~c.fUseLooseID THEN Gt(sum, Int2Rat(c.fPTSumMax))
  ELSE IF c.fUseLooseID /\ ~c.fUsePTSum THEN Gt(sum, Int2Rat(isoCut))
  ELSE IF ~c.fUsePTSum THEN Gt(ratio, c.fPTRatioMax)
  ELSE FALSE

\* The selection with the ratio clause applied in every mode.
Rejected_RatioInEveryMode(c, sum, ratio, isoCut) ==
  IF c.fUsePTSum /\ ~c.fUseLooseID /\ Gt(sum, Int2Rat(c.fPTSumMax)) THEN TRUE
  ELSE IF c.fUseLooseID /\ ~c.fUsePTSum /\ Gt(sum, Int2Rat(isoCut)) THEN TRUE
  ELSE IF Gt(ratio, c.fPTRatioMax) THEN TRUE
  ELSE FALSE

\* The selection with ratio >= fPTRatioMax in the ratio clause.
Rejected_RatioAtLeast(c, sum, ratio, isoCut) ==
  IF c.fUsePTSum /\ ~c.fUseLooseID /\ Gt(sum, Int2Rat(c.fPTSumMax)) THEN TRUE
  ELSE IF c.fUseLooseID /\ ~c.fUsePTSum /\ Gt(sum, Int2Rat(isoCut)) THEN TRUE
  ELSE IF ~c.fUsePTSum /\ ~Gt(c.fPTRatioMax, ratio) THEN TRUE
  ELSE FALSE

\* The selection: TRUE when one of the three clauses rejects the candidate.
Rejected(c, sum, ratio, isoCut) ==
  IF c.fUsePTSum /\ ~c.fUseLooseID /\ Gt(sum, Int2Rat(c.fPTSumMax)) THEN TRUE
  ELSE IF c.fUseLooseID /\ ~c.fUsePTSum /\ Gt(sum, Int2Rat(isoCut)) THEN TRUE
  ELSE IF ~c.fUsePTSum /\ Gt(ratio, c.fPTRatioMax) THEN TRUE
  ELSE FALSE

\* An Add that puts the candidate in front.
Add_First(array, position) == << position >> \o array

\* fOutputArray->Add(candidate)
Add(array, position) == Append(array, position)

\* ------------------------------------------------------------- actions

Init ==
  /\ cfg \in FirstConfigs
  /\ fCandidateInputArray \in SubSeqs(CandidateMaster, MaxCandidates)
  /\ fIsolationInputArray \in SubSeqs(IsolationMaster, MaxIsolation)
  /\ fRhoInputArray \in RhoInputs
  /\ fields = [i \in DOMAIN fCandidateInputArray |-> Unset]
  /\ fOutputArray = <<>>
  /\ isolationArray = NullArray
  /\ pc = "start"
  /\ ci = 1
  /\ ii = 1
  /\ eta = 0
  /\ rho = 0
  /\ sumNeutral = 0
  /\ sumChargedNoPU = 0
  /\ sumChargedPU = 0
  /\ sumAllParticles = 0
  /\ counter = 0
  /\ sumDBeta = Int2Rat(0)
  /\ sumRhoCorr = Int2Rat(0)
  /\ pass = 1
  /\ prev = Unset

\* The selection of the isolation objects without the return on no sub-array.
SelectIsolation_NoReturn ==
  /\ pc = "start"
  /\ isolationArray' = GetSubArray(fIsolationInputArray, cfg.fPTMin)
  /\ pc' = "candidate"
  /\ ci' = 1
  /\ UNCHANGED << cfg, inputs, fields, fOutputArray, ii, eta, rho, sums,
                  sumDBeta, sumRhoCorr, pass, prev >>

\* Process, lines 177-186: select the isolation objects; return when there is
\* no sub-array, else reset the candidate iterator.
SelectIsolation ==
  /\ pc = "start"
  /\ isolationArray' = GetSubArray(fIsolationInputArray, cfg.fPTMin)
  /\ pc' = IF isolationArray'.null THEN "done" ELSE "candidate"
  /\ ci' = 1
  /\ UNCHANGED << cfg, inputs, fields, fOutputArray, ii, eta, rho, sums,
                  sumDBeta, sumRhoCorr, pass, prev >>

\* Process, lines 187-214: the next candidate, if any; its |eta|, the first
\* "find rho", the sums cleared and the isolation iterator reset.
NextCandidate ==
  /\ pc = "candidate"
  /\ IF ci > Len(fCandidateInputArray)
     THEN /\ pc' = "done"
          /\ UNCHANGED << ii, eta, rho, sums >>
     ELSE /\ eta' = Abs(fCandidateInputArray[ci].eta)
          /\ rho' = FindRho(fRhoInputArray, eta')
          /\ sumNeutral' = 0
          /\ sumChargedNoPU' = 0
          /\ sumChargedPU' = 0
          /\ sumAllParticles' = 0
          /\ counter' = 0
          /\ ii' = 1
          /\ pc' = "isolation"
  /\ UNCHANGED << cfg, inputs, fields, fOutputArray, isolationArray, ci,
                  sumDBeta, sumRhoCorr, pass, prev >>

\* The loop's turn with a charged pile-up object also added to the charged
\* non-pile-up sum (the else of line 230 lost).
Accumulate_PileupCountedTwice ==
  /\ pc = "isolation"
  /\ ii <= Len(isolationArray.items)
  /\ LET candidate == fCandidateInputArray[ci]
         isolation == isolationArray.items[ii]
     IN IF Included(candidate, isolation, cfg.fDeltaRMax)
        THEN /\ sumAllParticles' = sumAllParticles + isolation.pt
             /\ IF isolation.Charge # 0
                THEN /\ sumChargedPU' = sumChargedPU
                          + (IF isolation.IsRecoPU THEN isolation.pt ELSE 0)
                     /\ sumChargedNoPU' = sumChargedNoPU + isolation.pt
                     /\ UNCHANGED sumNeutral
                ELSE /\ sumNeutral' = sumNeutral + isolation.pt
                     /\ UNCHANGED << sumChargedPU, sumChargedNoPU >>
             /\ counter' = counter + 1
        ELSE UNCHANGED sums
  /\ ii' = ii + 1
  /\ UNCHANGED << cfg, inputs, fields, fOutputArray, isolationArray, pc, ci,
                  eta, rho, sumDBeta, sumRhoCorr, pass, prev >>

\* Process, lines 216-241: one turn of the loop over the isolation objects.
Accumulate ==
  /\ pc = "isolation"
  /\ ii <= Len(isolationArray.items)
  /\ LET candidate == fCandidateInputArray[ci]
         isolation == isolationArray.items[ii]
     IN IF Included(candidate, isolation, cfg.fDeltaRMax)
        THEN /\ sumAllParticles' = sumAllParticles + isolation.pt
             /\ IF isolation.Charge # 0
                THEN IF isolation.IsRecoPU
                     THEN /\ sumChargedPU' = sumChargedPU + isolation.pt
                          /\ UNCHANGED << sumChargedNoPU, sumNeutral >>
                     ELSE /\ sumChargedNoPU' = sumChargedNoPU + isolation.pt
                          /\ UNCHANGED << sumChargedPU, sumNeutral >>
                ELSE /\ sumNeutral' = sumNeutral + isolation.pt
                     /\ UNCHANGED << sumChargedPU, sumChargedNoPU >>
             /\ counter' = counter + 1
        ELSE UNCHANGED sums
  /\ ii' = ii + 1
  /\ UNCHANGED << cfg, inputs, fields, fOutputArray, isolationArray, pc, ci,
                  eta, rho, sumDBeta, sumRhoCorr, pass, prev >>

\* Process, lines 243-305: the second "find rho", the cut, the corrected sums
\* and ratios, the six fields written, the selection, the candidate added.
Select ==
  /\ pc = "isolation"
  /\ ii > Len(isolationArray.items)
  /\ LET candidate == fCandidateInputArray[ci]
         isoCut == IsoCut(candidate, cfg.IsoParams)
         ratioDBeta == DivPt(sumDBeta', candidate.pt)
         ratioRhoCorr == DivPt(sumRhoCorr', candidate.pt)
         sum == IF cfg.fUseRhoCorrection THEN sumRhoCorr' ELSE sumDBeta'
         ratio == IF cfg.fUseRhoCorrection THEN ratioRhoCorr ELSE ratioDBeta
     IN /\ rho' = FindRho(fRhoInputArray, eta)
        /\ sumDBeta' = SumDBeta(sumChargedNoPU, sumNeutral, sumChargedPU)
        /\ sumRhoCorr' = SumRhoCorr(sumChargedNoPU, sumNeutral, rho',
                                    cfg.fDeltaRMax)
        /\ fields' = [fields EXCEPT ![ci] =
                        [IsolationVar |-> ratioDBeta,
                         IsolationVarRhoCorr |-> ratioRhoCorr,
                         SumPtCharged |-> sumChargedNoPU,
                         SumPtNeutral |-> sumNeutral,
                         SumPtChargedPU |-> sumChargedPU,
                         SumPt |-> sumAllParticles]]
        /\ fOutputArray' = IF Rejected(cfg, sum, ratio, isoCut)
                           THEN fOutputArray
                           ELSE Add(fOutputArray, ci)
  /\ ci' = ci + 1
  /\ pc' = "candidate"
  /\ UNCHANGED << cfg, inputs, isolationArray, ii, eta, sums, pass, prev >>

\* A second Isolation module of the card, configured by its own Init, runs on
\* the same event: the same input arrays, an output array of its own.
SecondModule ==
  /\ pc = "done"
  /\ pass = 1
  /\ prev' = [cfg |-> cfg, fields |-> fields, fOutputArray |-> fOutputArray,
              isolationArray |-> isolationArray]
  /\ cfg' \in Variants(cfg)
  /\ fOutputArray' = <<>>
  /\ isolationArray' = NullArray
  /\ pass' = 2
  /\ pc' = "start"
  /\ UNCHANGED << inputs, fields, ci, ii, eta, rho, sums, sumDBeta, sumRhoCorr >>

Next ==
  \/ SelectIsolation
  \/ NextCandidate
  \/ Accumulate
  \/ Select
  \/ SecondModule

Spec == Init /\ [][Next]_vars

\* ----------------------------------------------- reference definitions
\* What the design document says of a pass, stated over the event's input
\* arrays rather than over the loops of Process.

RECURSIVE SetSum(_, _)
SetSum(S, f) ==
  IF S = {} THEN 0
  ELSE LET k == CHOOSE x \in S : TRUE IN f[k] + SetSum(S \ {k}, f)

\* The positions of the isolation objects that pass the pre-filter of c.
Passing(c) ==
  { k \in DOMAIN fIsolationInputArray : fIsolationInputArray[k].pt >= c.fPTMin }

\* Those of them that count for candidate i: in the cone, another object.
Counted(i, c) ==
  { k \in Passing(c) :
      /\ DeltaR2(fCandidateInputArray[i], fIsolationInputArray[k])
           <= c.fDeltaRMax * c.fDeltaRMax
      /\ fIsolationInputArray[k].id # fCandidateInputArray[i].id }

IsoPt == [k \in DOMAIN fIsolationInputArray |-> fIsolationInputArray[k].pt]

RefNeutral(i, c) ==
  SetSum({ k \in Counted(i, c) : fIsolationInputArray[k].Charge = 0 }, IsoPt)

RefChargedPU(i, c) ==
  SetSum({ k \in Counted(i, c) : /\ fIsolationInputArray[k].Charge # 0
                                 /\ fIsolationInputArray[k].IsRecoPU }, IsoPt)

RefChargedNoPU(i, c) ==
  SetSum({ k \in Counted(i, c) : /\ fIsolationInputArray[k].Charge # 0
                                 /\ ~fIsolationInputArray[k].IsRecoPU }, IsoPt)

RefAll(i, c) == SetSum(Counted(i, c), IsoPt)

\* The density of candidate i: that of the last bin holding its |eta|, else 0.
RefRho(i) ==
  IF fRhoInputArray.null THEN 0
  ELSE LET e == Abs(fCandidateInputArray[i].eta)
           t == fRhoInputArray.items
           m == { k \in DOMAIN t : t[k].lo <= e /\ e < t[k].hi }
       IN IF m = {} THEN 0
          ELSE t[CHOOSE k \in m : \A j \in m : j <= k].rho

RefSumDBeta(i, c) ==
  LET twice == 2 * RefNeutral(i, c) - RefChargedPU(i, c)
  IN Rat(2 * RefChargedNoPU(i, c) + (IF twice > 0 THEN twice ELSE 0), 2)

RefSumRhoCorr(i, c) ==
  LET rest == RefNeutral(i, c) - RefRho(i) * c.fDeltaRMax * c.fDeltaRMax
  IN Int2Rat(RefChargedNoPU(i, c) + (IF rest > 0 THEN rest ELSE 0))

RefRatio(sum, i) ==
  LET pt == fCandidateInputArray[i].pt IN Rat(sum.num, sum.den * pt)

RefFields(i, c) ==
  [IsolationVar |-> RefRatio(RefSumDBeta(i, c), i),
   IsolationVarRhoCorr |-> RefRatio(RefSumRhoCorr(i, c), i),
   SumPtCharged |-> RefChargedNoPU(i, c),
   SumPtNeutral |-> RefNeutral(i, c),
   SumPtChargedPU |-> RefChargedPU(i, c),
   SumPt |-> RefAll(i, c)]

\* The corrected sum and ratio the selection of c uses for candidate i.
RefSum(i, c) ==
  IF c.fUseRhoCorrection THEN RefSumRhoCorr(i, c) ELSE RefSumDBeta(i, c)

RefRatioOf(i, c) == RefRatio(RefSum(i, c), i)

\* The eta-dependent parametrised cut of candidate i.
RefIsoCut(i, c) ==
  LET cand == fCandidateInputArray[i]
      central == cand.eta > -BarrelEdge /\ cand.eta < BarrelEdge
  IN IF central THEN c.IsoParams.Iso_p0 + c.IsoParams.Iso_p1 * cand.pt
     ELSE c.IsoParams.Iso_p0_ee + c.IsoParams.Iso_p1_ee * cand.pt

\* The candidates the running pass has dealt with so far.
Processed ==
  IF pc = "start" \/ isolationArray.null THEN {} ELSE 1 .. (ci - 1)

Emitted(i) == \E k \in DOMAIN fOutputArray : fOutputArray[k] = i

EmittedIn(out, i) == \E k \in DOMAIN out : out[k] = i

\* The running pass is over.
Done == pc = "done"

\* Two configurations that agree on all but the named parameters.
SameBut(c, d, names) ==
  \A f \in (DOMAIN c) \ names : c[f] = d[f]

\* ----------------------------------------------------------- properties

\* C1: when a pass is over, each candidate of the candidate input array holds
\* in its six output fields the values of that pass (the sums over the
\* pre-filtered objects of its cone, the two ratios), whatever the isolation
\* input array holds, also when no object passes the pre-filter.
C1_FieldsWrittenInEveryPass ==
  Done => \A i \in DOMAIN fCandidateInputArray : fields[i] = RefFields(i, cfg)

\* C2 (as stated): in the loose mode (fUseLooseID, not fUsePTSum), with an
\* object passing the pre-filter, a candidate is rejected if and only if its
\* corrected sum exceeds IsoCut; fPTRatioMax plays no part.
C2_RejectedIffSumAboveIsoCut ==
  (cfg.fUseLooseID /\ ~cfg.fUsePTSum /\ Passing(cfg) # {}) =>
    \A i \in Processed :
      ~Emitted(i) <=> Gt(RefSum(i, cfg), Int2Rat(RefIsoCut(i, cfg)))

\* C2 (amended): in the loose mode, with an object passing the pre-filter, a
\* candidate is rejected if and only if its corrected sum exceeds IsoCut or
\* its ratio exceeds fPTRatioMax: the ratio clause still applies to a
\* candidate that the IsoCut clause lets through.
C2_RejectedIffSumOrRatioAbove ==
  (cfg.fUseLooseID /\ ~cfg.fUsePTSum /\ Passing(cfg) # {}) =>
    \A i \in Processed :
      ~Emitted(i) <=> \/ Gt(RefSum(i, cfg), Int2Rat(RefIsoCut(i, cfg)))
                      \/ Gt(RefRatioOf(i, cfg), cfg.fPTRatioMax)

\* C2 witness: a loose-mode pass has dropped a candidate whose sum is within
\* IsoCut, and kept another.
C2_Witness ==
  /\ cfg.fUseLooseID /\ ~cfg.fUsePTSum /\ Passing(cfg) # {}
  /\ \E i \in Processed :
       /\ ~Emitted(i)
       /\ ~Gt(RefSum(i, cfg), Int2Rat(RefIsoCut(i, cfg)))
  /\ \E i \in Processed : Emitted(i)

\* C3: in the sum mode (fUsePTSum, not fUseLooseID), with an object passing
\* the pre-filter, a candidate is emitted if and only if its corrected sum is
\* at most fPTSumMax; and a second pass over the same inputs that differs from
\* the first only in fPTRatioMax and the IsoCut parameters emits the same
\* candidates.
C3_SumModeDependsOnSumOnly ==
  (cfg.fUsePTSum /\ ~cfg.fUseLooseID /\ Passing(cfg) # {}) =>
    /\ \A i \in Processed :
         Emitted(i) <=> ~Gt(RefSum(i, cfg), Int2Rat(cfg.fPTSumMax))
    /\ (Done /\ pass = 2 /\ SameBut(prev.cfg, cfg, {"fPTRatioMax", "IsoParams"}))
         => fOutputArray = prev.fOutputArray

\* C3 witness: two finished sum-mode passes that differ in fPTRatioMax and in
\* the IsoCut parameters, each having kept one candidate and dropped another.
C3_Witness ==
  /\ cfg.fUsePTSum /\ ~cfg.fUseLooseID /\ Passing(cfg) # {}
  /\ Done /\ pass = 2
  /\ SameBut(prev.cfg, cfg, {"fPTRatioMax", "IsoParams"})
  /\ prev.cfg.fPTRatioMax # cfg.fPTRatioMax
  /\ prev.cfg.IsoParams # cfg.IsoParams
  /\ \E i, j \in Processed : Emitted(i) /\ ~Emitted(j)

\* C4: in the default mode (neither fUsePTSum nor fUseLooseID), with an object
\* passing the pre-filter, a candidate of pt > 0 is emitted if and only if its
\* ratio (rho-corrected when fUseRhoCorrection, else delta-beta) is at most
\* fPTRatioMax; a second pass that differs only in fPTSumMax and the IsoCut
\* parameters decides every such candidate the same way.
C4_DefaultModeDependsOnRatioOnly ==
  (~cfg.fUsePTSum /\ ~cfg.fUseLooseID /\ Passing(cfg) # {}) =>
    \A i \in Processed :
      fCandidateInputArray[i].pt > 0 =>
        /\ Emitted(i) <=> ~Gt(RefRatioOf(i, cfg), cfg.fPTRatioMax)
        /\ (Done /\ pass = 2 /\ SameBut(prev.cfg, cfg, {"fPTSumMax", "IsoParams"}))
             => (Emitted(i) <=> EmittedIn(prev.fOutputArray, i))

\* C4 witness: two finished default-mode passes that differ in fPTSumMax and
\* in the IsoCut parameters; a candidate of pt > 0 whose ratio equals
\* fPTRatioMax was kept, another of pt > 0 was dropped.
C4_Witness ==
  /\ ~cfg.fUsePTSum /\ ~cfg.fUseLooseID /\ Passing(cfg) # {}
  /\ Done /\ pass = 2
  /\ SameBut(prev.cfg, cfg, {"fPTSumMax", "IsoParams"})
  /\ prev.cfg.fPTSumMax # cfg.fPTSumMax
  /\ prev.cfg.IsoParams # cfg.IsoParams
  /\ \E i, j \in Processed :
       /\ fCandidateInputArray[i].pt > 0 /\ fCandidateInputArray[j].pt > 0
       /\ Emitted(i) /\ RefRatioOf(i, cfg) = cfg.fPTRatioMax
       /\ ~Emitted(j)

\* C5: the output array of a pass is a sub-sequence of the candidate input
\* array: its entries are positions of candidates the pass has dealt with,
\* in increasing order, none twice.
C5_OutputIsSubsequence ==
  /\ \A k \in DOMAIN fOutputArray :
       /\ fOutputArray[k] \in DOMAIN fCandidateInputArray
       /\ fOutputArray[k] \in Processed
  /\ \A k, l \in DOMAIN fOutputArray :
       k < l => fOutputArray[k] < fOutputArray[l]

\* C5 witness: a finished pass over three candidates has kept the first and
\* the last and dropped the one between them.
C5_Witness ==
  /\ Done
  /\ Len(fCandidateInputArray) >= 3
  /\ \E i, j, l \in Processed :
       i < j /\ j < l /\ Emitted(i) /\ ~Emitted(j) /\ Emitted(l)

\* The candidate and the isolation object the accumulation loop is at.
AtObject == pc = "isolation" /\ ii <= Len(isolationArray.items)

\* The four sums are those of the fields record f.
Partitioned(f) ==
  f.SumPtCharged + f.SumPtChargedPU + f.SumPtNeutral = f.SumPt

\* One turn of the loop leaves the sums alone, or adds the object's pt to
\* the total and to the one category sum of the object's kind.
OneCategoryStep ==
  AtObject =>
    LET o == isolationArray.items[ii]
        dAll == sumAllParticles' - sumAllParticles
        dNeutral == sumNeutral' - sumNeutral
        dPU == sumChargedPU' - sumChargedPU
        dNoPU == sumChargedNoPU' - sumChargedNoPU
    IN \/ counter' = counter /\ UNCHANGED << sumAllParticles, sumNeutral,
                                             sumChargedPU, sumChargedNoPU >>
       \/ /\ counter' = counter + 1
          /\ dAll = o.pt
          /\ dNeutral = (IF o.Charge = 0 THEN o.pt ELSE 0)
          /\ dPU = (IF o.Charge # 0 /\ o.IsRecoPU THEN o.pt ELSE 0)
          /\ dNoPU = (IF o.Charge # 0 /\ ~o.IsRecoPU THEN o.pt ELSE 0)

\* C6: at every point of a pass the three category sums add up to the sum of
\* all particles, in the loop's sums and in every written candidate; and each
\* turn of the loop that counts an object adds its pt to the total and to
\* exactly one category sum (neutral when Charge = 0, else charged pile-up
\* when IsRecoPU, else charged non-pile-up).
C6_CategorySumsPartitionTotal ==
  /\ [](/\ sumChargedNoPU + sumChargedPU + sumNeutral = sumAllParticles
        /\ \A i \in DOMAIN fields : fields[i] # Unset => Partitioned(fields[i]))
  /\ [][OneCategoryStep]_vars

\* C6 witness: the loop has counted objects of all three kinds for one
\* candidate.
C6_Witness ==
  /\ pc = "isolation"
  /\ sumChargedNoPU > 0 /\ sumChargedPU > 0 /\ sumNeutral > 0
  /\ counter >= 3

\* The objects among the first n of the pre-filtered array that count for the
\* candidate the loop is at: within DeltaRMax, boundary included, and of
\* another unique id.
CountedSoFar(n) ==
  { k \in 1 .. n :
      LET o == isolationArray.items[k]
          c == fCandidateInputArray[ci]
      IN /\ o.id # c.id
         /\ DeltaR2(c, o) <= cfg.fDeltaRMax * cfg.fDeltaRMax }

FilteredPt == [k \in DOMAIN isolationArray.items |-> isolationArray.items[k].pt]

\* C7: throughout the loop over the pre-filtered objects, each of the four
\* sums is the sum of pt of the objects met so far that have another unique
\* id than the candidate and lie within DeltaRMax (boundary included): an
\* object of the candidate's own id adds to none, every other object in the
\* cone adds to the total and to its category.
C7_SelfExcludedOthersInConeCounted ==
  pc = "isolation" =>
    LET met == CountedSoFar(ii - 1)
        item == isolationArray.items
    IN /\ sumAllParticles = SetSum(met, FilteredPt)
       /\ counter = Cardinality(met)
       /\ sumNeutral = SetSum({ k \in met : item[k].Charge = 0 }, FilteredPt)
       /\ sumChargedPU =
            SetSum({ k \in met : item[k].Charge # 0 /\ item[k].IsRecoPU },
                   FilteredPt)
       /\ sumChargedNoPU =
            SetSum({ k \in met : item[k].Charge # 0 /\ ~item[k].IsRecoPU },
                   FilteredPt)

\* C7 witness: the loop is over for a candidate; it met the candidate itself
\* (same id, DeltaR = 0) and an object exactly at DeltaRMax, which counted.
C7_Witness ==
  /\ pc = "isolation" /\ ii > Len(isolationArray.items)
  /\ \E k \in DOMAIN isolationArray.items :
       /\ isolationArray.items[k].id = fCandidateInputArray[ci].id
       /\ DeltaR2(fCandidateInputArray[ci], isolationArray.items[k]) = 0
  /\ \E k \in CountedSoFar(ii - 1) :
       DeltaR2(fCandidateInputArray[ci], isolationArray.items[k])
         = cfg.fDeltaRMax * cfg.fDeltaRMax
  /\ sumAllParticles > 0

\* C8: when no isolation object has pt >= PTMin, the pass adds nothing to
\* the output array, whatever the candidates, the flags and the cut values.
C8_NothingEmittedWhenFilterEmpty ==
  Passing(cfg) = {} => fOutputArray = <<>>

\* C8 witness: a finished pass over candidates and isolation objects none of
\* which passes the pre-filter.
C8_Witness ==
  /\ Done
  /\ Passing(cfg) = {}
  /\ fIsolationInputArray # <<>>
  /\ Len(fCandidateInputArray) >= 2

\* The fields records lo and hi of one candidate: no sum of hi exceeds lo's.
SumsAtMost(hi, lo) ==
  /\ hi.SumPtCharged <= lo.SumPtCharged
  /\ hi.SumPtNeutral <= lo.SumPtNeutral
  /\ hi.SumPtChargedPU <= lo.SumPtChargedPU
  /\ hi.SumPt <= lo.SumPt

\* Both passes are over, differ only in PTMin, and each wrote its sums.
TwoPassesDifferingInPTMin ==
  /\ Done /\ pass = 2
  /\ SameBut(prev.cfg, cfg, {"fPTMin"})
  /\ ~prev.isolationArray.null
  /\ ~isolationArray.null

C10_RhoIsLastMatchingBin ==
  /\ pc = "isolation" => rho = RefRho(ci)
  /\ (pc = "candidate" /\ ci > 1) =>
       /\ rho = RefRho(ci - 1)
       /\ sumRhoCorr =
            Int2Rat(fields[ci - 1].SumPtCharged
                    + Max(fields[ci - 1].SumPtNeutral
                          - RefRho(ci - 1) * cfg.fDeltaRMax * cfg.fDeltaRMax, 0))

\* C10 witness: the selection of a second candidate has used a rho of 0 (no
\* bin holds its |eta|) after a first candidate whose |eta| lies in two
\* overlapping bins and took the later one's rho.
C10_Witness ==
  /\ pc = "candidate" /\ ci = 3
  /\ ~fRhoInputArray.null
  /\ Cardinality({ k \in DOMAIN fRhoInputArray.items :
                     /\ fRhoInputArray.items[k].lo <= Abs(fCandidateInputArray[1].eta)
                     /\ Abs(fCandidateInputArray[1].eta) < fRhoInputArray.items[k].hi })
       = 2
  /\ RefRho(1) = 1
  /\ rho = 0
  /\ fields[1].SumPtNeutral > 0

=============================================================================
